---- MODULE Spec2Model ----
(***************************************************************************)
(* XGBTree (methods/xgboost/xgbtree.hpp): a regression tree node with      *)
(* Train (recursive in-place partitioning), Predict and Prune.             *)
(*                                                                         *)
(* Columns are numbered from 0 as in the source; a column c of the         *)
(* matrix is element c + 1 of the sequence that models it.  Gains are      *)
(* exact rationals <<numerator, denominator>> in lowest terms.             *)
(***************************************************************************)
EXTENDS Integers, Sequences, FiniteSets, TLC

(***************************************************************************)
(* Bounds of the model.                                                    *)
(***************************************************************************)
MaxSamples == 3
MaxTrains == 2

(***************************************************************************)
(* Rational arithmetic standing for the double arithmetic of the source.   *)
(***************************************************************************)
Abs(x) == IF x < 0 THEN -x ELSE x

RECURSIVE GCD(_, _)
GCD(a, b) == IF b = 0 THEN a ELSE GCD(b, a % b)

Rat(n, d) ==
  LET g == GCD(Abs(n), Abs(d))
      s == IF d < 0 THEN -1 ELSE 1
  IN  IF n = 0 THEN <<0, 1>> ELSE <<(s * n) \div g, (s * d) \div g>>

RAdd(a, b) == Rat(a[1] * b[2] + b[1] * a[2], a[2] * b[2])
RMul(a, b) == Rat(a[1] * b[1], a[2] * b[2])
RNeg(a) == <<-a[1], a[2]>>
RLess(a, b) == a[1] * b[2] < b[1] * a[2]
RGeq(a, b) == ~RLess(a, b)
Zero == <<0, 1>>

(***************************************************************************)
(* The dataset descriptor: dimension 0 is numeric, dimension 1 is          *)
(* categorical with NumMappings category codes.                            *)
(***************************************************************************)
DatasetTypes == <<"numeric", "categorical">>
NumericValues == {0, 1}
Categories == {0, 1}
NumMappings == Cardinality(Categories)
Dimensionality == Len(DatasetTypes)
Type(i) == DatasetTypes[i + 1]

FeatureDomain(i) ==
  IF Type(i) = "categorical" THEN Categories ELSE NumericValues
Points == {p \in [1 .. Dimensionality -> NumericValues \cup Categories] :
             \A i \in 0 .. (Dimensionality - 1) : p[i + 1] \in FeatureDomain(i)}
Responses == {0, 1}

\* The hyperparameters the caller trains with and the thresholds it prunes
\* with.
Hyperparameters ==
  {[minimumLeafSize |-> 1, minimumGainSplit |-> <<0, 1>>, maximumDepth |-> 3],
   [minimumLeafSize |-> 2, minimumGainSplit |-> <<1, 8>>, maximumDepth |-> 2],
   [minimumLeafSize |-> 1, minimumGainSplit |-> <<0, 1>>, maximumDepth |-> 1]}
Thresholds == {<<-1, 5>>, <<0, 1>>, <<1, 1>>}

\* What a split evaluator returns when it did not split (the DBL_MAX
\* sentinel of the source): didSplit is FALSE and the split info is left alone.
NoSplit == [didSplit |-> FALSE, gain |-> <<0, 1>>, splitInfo |-> 0]

(***************************************************************************)
(* Sequence helpers.                                                       *)
(***************************************************************************)
RECURSIVE SumSeq(_)
SumSeq(s) == IF s = <<>> THEN 0 ELSE Head(s) + SumSeq(Tail(s))

RECURSIVE SumSq(_)
SumSq(s) == IF s = <<>> THEN 0 ELSE Head(s) * Head(s) + SumSq(Tail(s))

\* The columns begin .. begin + count - 1 of a row vector or matrix.
Cols(v, begin, count) == SubSeq(v, begin + 1, begin + count)

\* The entries of responses whose matching entry of keys equals k.
RECURSIVE Pick(_, _, _)
Pick(keys, vals, k) ==
  IF keys = <<>> THEN <<>>
  ELSE IF Head(keys) = k
       THEN <<Head(vals)>> \o Pick(Tail(keys), Tail(vals), k)
       ELSE Pick(Tail(keys), Tail(vals), k)

(***************************************************************************)
(* MSEGain: Evaluate is the negated mean squared error of the responses,   *)
(* OutputLeafValue their mean.                                             *)
(***************************************************************************)
Evaluate(resp) ==
  LET n == Len(resp)
      sum == SumSeq(resp)
  IN  IF n = 0 THEN Zero
      ELSE Rat(-(n * SumSq(resp) - sum * sum), n * n)

OutputLeafValue(resp) ==
  IF Len(resp) = 0 THEN Zero ELSE Rat(SumSeq(resp), Len(resp))

\* The gain of a split into the given groups of responses: the average of
\* the groups' gains weighted by their sizes.
RECURSIVE WeightedGain(_, _)
WeightedGain(groups, n) ==
  IF groups = <<>> THEN Zero
  ELSE RAdd(RMul(Rat(Len(Head(groups)), n), Evaluate(Head(groups))),
            WeightedGain(Tail(groups), n))

(***************************************************************************)
(* BestBinaryNumericSplit.  splitInfo holds twice the threshold, the       *)
(* threshold being the midpoint of two neighbouring distinct values.       *)
(***************************************************************************)
NumericCalculateDirection(value, splitInfo) ==
  IF 2 * value <= splitInfo THEN 0 ELSE 1

NumericNumChildren(splitInfo) == 2

NumericNeighbours(values) ==
  {p \in values \X values :
     p[1] < p[2] /\ ~\E z \in values : p[1] < z /\ z < p[2]}

NumericCandidates(column) ==
  {p[1] + p[2] : p \in NumericNeighbours({column[k] : k \in 1 .. Len(column)})}

NumericGroups(column, resp, t) ==
  LET dirs == [k \in 1 .. Len(column) |-> NumericCalculateDirection(column[k], t)]
  IN  <<Pick(dirs, resp, 0), Pick(dirs, resp, 1)>>

\* What one candidate threshold gives: whether both sides hold the minimum
\* leaf size, and the gain.
NumericScore(t, groups, n, minimumLeafSize) ==
  [splitInfo |-> t,
   fits |-> Len(groups[1]) >= minimumLeafSize /\ Len(groups[2]) >= minimumLeafSize,
   gain |-> WeightedGain(groups, n)]

NumericSplitIfBetter(bestGain, column, resp, minimumLeafSize, minimumGainSplit) ==
  LET scored == {NumericScore(t, NumericGroups(column, resp, t), Len(column),
                              minimumLeafSize) : t \in NumericCandidates(column)}
      ok == {s \in scored :
               s.fits /\ RLess(RAdd(bestGain, minimumGainSplit), s.gain)}
  IN  IF ok = {} THEN NoSplit
      ELSE LET b == CHOOSE u \in ok :
                      \A w \in ok : \/ RLess(w.gain, u.gain)
                                    \/ (w.gain = u.gain
                                        /\ u.splitInfo <= w.splitInfo)
           IN  [didSplit |-> TRUE, gain |-> b.gain, splitInfo |-> b.splitInfo]

(***************************************************************************)
(* AllCategoricalSplit: one child per category code; splitInfo holds the   *)
(* number of categories.                                                   *)
(***************************************************************************)
CategoricalCalculateDirection(value, splitInfo) == value

CategoricalNumChildren(splitInfo) == splitInfo

CategoricalGroups(column, resp, numCategories) ==
  [c \in 1 .. numCategories |-> Pick(column, resp, c - 1)]

CategoricalSplitIfBetter(bestGain, column, numCategories, resp, minimumLeafSize, minimumGainSplit) ==
  LET g == CategoricalGroups(column, resp, numCategories)
      gain == WeightedGain(g, Len(column))
  IN  IF /\ \A c \in 1 .. numCategories : Len(g[c]) >= minimumLeafSize
         /\ RLess(RAdd(bestGain, minimumGainSplit), gain)
      THEN [didSplit |-> TRUE, gain |-> gain, splitInfo |-> numCategories]
      ELSE NoSplit

(***************************************************************************)
(* The tree node.  prediction and splitDimension share one slot (a union): *)
(* active names the member written last.  id, begin, count, entry, exit,   *)
(* untouched and ret are history fields: the node's allocation (generation *)
(* and path of directions from the root), the range its Train was called   *)
(* on, the (column, response) pairs of that range when the call started    *)
(* and when it returned, whether every column outside the range was the    *)
(* same at the return as at the start, and the value the call returned.    *)
(***************************************************************************)
Indeterminate == <<0, 0>>

NewXGBTree(id) ==
  [children |-> <<>>,
   active |-> "none", prediction |-> Indeterminate, splitDimension |-> 0,
   dimensionType |-> "indeterminate",
   splitInfo |-> 0,
   nodeGain |-> Indeterminate,
   id |-> id, begin |-> 0, count |-> 0,
   entry |-> <<>>, exit |-> <<>>, untouched |-> TRUE, ret |-> Indeterminate]

Pairs(data, responses) == [c \in 1 .. Len(data) |-> <<data[c], responses[c]>>]

\* The pairs of the columns begin .. begin + count - 1.
RangePairs(data, responses, begin, count) ==
  Cols(Pairs(data, responses), begin, count)

\* The columns outside begin .. begin + count - 1 are the same in both.
SameOutside(data, responses, newData, newResponses, begin, count) ==
  /\ Len(newData) = Len(data)
  /\ Len(newResponses) = Len(responses)
  /\ \A c \in 0 .. (Len(data) - 1) :
       (c < begin \/ c >= begin + count) =>
         /\ newData[c + 1] = data[c + 1]
         /\ newResponses[c + 1] = responses[c + 1]

\* Row i of the columns begin .. begin + count - 1 of the matrix.
Row(data, begin, count, i) ==
  [k \in 1 .. count |-> data[begin + k][i + 1]]

(***************************************************************************)
(* Train, lines 129-183: the gain of the undivided range and the scan of   *)
(* the dimensions.                                                         *)
(***************************************************************************)
SplitIfBetter(i, bestGain, data, responses, begin, count, cfg) ==
  IF Type(i) = "categorical"
  THEN CategoricalSplitIfBetter(bestGain, Row(data, begin, count, i),
           NumMappings, Cols(responses, begin, count),
           cfg.minimumLeafSize, cfg.minimumGainSplit)
  ELSE NumericSplitIfBetter(bestGain, Row(data, begin, count, i),
           Cols(responses, begin, count),
           cfg.minimumLeafSize, cfg.minimumGainSplit)

RECURSIVE DimensionScan(_, _, _, _, _, _, _)
DimensionScan(i, best, data, responses, begin, count, cfg) ==
  IF i = Dimensionality THEN best
  ELSE LET r == SplitIfBetter(i, best.bestGain, data, responses, begin,
                              count, cfg)
           improved == [bestGain |-> r.gain, bestDim |-> i,
                        splitInfo |-> r.splitInfo]
       IN  IF ~r.didSplit
           THEN DimensionScan(i + 1, best, data, responses, begin, count, cfg)
           ELSE IF RGeq(improved.bestGain, Zero) THEN improved
           ELSE DimensionScan(i + 1, improved, data, responses, begin, count,
                              cfg)

BestSplit(self, data, responses, begin, count, cfg, maximumDepth) ==
  LET base == [bestGain |-> Evaluate(Cols(responses, begin, count)),
               bestDim |-> Dimensionality,
               splitInfo |-> self.splitInfo]
  IN  IF maximumDepth # 1
      THEN DimensionScan(0, base, data, responses, begin, count, cfg)
      ELSE base

(***************************************************************************)
(* Train, lines 196-223: the number of children, the child assignments and *)
(* the counts of the children.                                             *)
(***************************************************************************)
NumChildren(bestDim, splitInfo) ==
  IF Type(bestDim) = "categorical" THEN CategoricalNumChildren(splitInfo)
  ELSE NumericNumChildren(splitInfo)

ChildAssignments(data, begin, count, bestDim, splitInfo) ==
  [k \in 1 .. count |->
     IF Type(bestDim) = "categorical"
     THEN CategoricalCalculateDirection(data[begin + k][bestDim + 1], splitInfo)
     ELSE NumericCalculateDirection(data[begin + k][bestDim + 1], splitInfo)]

ChildCounts(childAssignments, numChildren) ==
  [i \in 1 .. numChildren |->
     Cardinality({k \in 1 .. Len(childAssignments) :
                    childAssignments[k] = i - 1})]

(***************************************************************************)
(* Train, lines 228-241: the in-place partition.  st holds                 *)
(* childAssignments, data, responses and currentCol.                       *)
(***************************************************************************)
swap_cols(v, a, b) ==
  [k \in 1 .. Len(v) |-> IF k = a + 1 THEN v[b + 1]
                         ELSE IF k = b + 1 THEN v[a + 1] ELSE v[k]]

\* The swap with the responses left where they are.
PartitionSwapDataOnly(st, begin, j) ==
  [childAssignments |->
     swap_cols(st.childAssignments, st.currentCol - begin, j - begin),
   data |-> swap_cols(st.data, st.currentCol, j),
   responses |-> st.responses,
   currentCol |-> st.currentCol + 1]

\* The swap with the child assignments left where they are.
PartitionSwapStaleAssignments(st, begin, j) ==
  [childAssignments |-> st.childAssignments,
   data |-> swap_cols(st.data, st.currentCol, j),
   responses |-> swap_cols(st.responses, st.currentCol, j),
   currentCol |-> st.currentCol + 1]

\* The swap with the responses indexed relative to begin, as the child
\* assignments are.
PartitionSwapRelativeResponses(st, begin, j) ==
  [childAssignments |->
     swap_cols(st.childAssignments, st.currentCol - begin, j - begin),
   data |-> swap_cols(st.data, st.currentCol, j),
   responses |-> swap_cols(st.responses, st.currentCol - begin, j - begin),
   currentCol |-> st.currentCol + 1]

PartitionSwap(st, begin, j) ==
  [childAssignments |->
     swap_cols(st.childAssignments, st.currentCol - begin, j - begin),
   data |-> swap_cols(st.data, st.currentCol, j),
   responses |-> swap_cols(st.responses, st.currentCol, j),
   currentCol |-> st.currentCol + 1]

RECURSIVE PartitionPass(_, _, _, _, _)
PartitionPass(st, i, j, begin, count) ==
  IF j >= begin + count THEN st
  ELSE IF st.childAssignments[j - begin + 1] = i
       THEN PartitionPass(PartitionSwap(st, begin, j), i, j + 1, begin, count)
       ELSE PartitionPass(st, i, j + 1, begin, count)

\* The range handed to the child, lines 247-248.
ChildRange(currentChildBegin, currentCol) ==
  [begin |-> currentChildBegin, count |-> currentCol - currentChildBegin]

\* The term with the child's returned value taken as it is.
ChildTermNotNegated(childCount, count, childGain) ==
  RMul(Rat(childCount, count), childGain)

\* Line 252: one child's term of the node's gain.
ChildTerm(childCount, count, childGain) ==
  RMul(Rat(childCount, count), RNeg(childGain))

(* Train, lines 111-266.  self is the node as it is when Train is called;  *)
(* the result holds the node, the reordered data and responses and the     *)
(* returned value.  acc holds what the loop over the children (lines       *)
(* 229-254) has built: the partition state st, bestGain and children.      *)
(***************************************************************************)
\* Lines 253 and 252: the child is appended and its term added to bestGain;
\* t is what the child's Train returned.
ChildDone(acc, st, t, childCount, count) ==
  [st |-> [st EXCEPT !.data = t.data, !.responses = t.responses],
   bestGain |-> RAdd(acc.bestGain, ChildTerm(childCount, count, t.ret)),
   children |-> Append(acc.children, t.node)]

\* Lines 256-265: the node becomes a leaf.
TrainLeaf(self, data, responses, begin, count, best) ==
  [node |-> [self EXCEPT
               !.children = <<>>,
               !.active = "prediction",
               !.prediction = OutputLeafValue(Cols(responses, begin, count)),
               !.splitDimension = 0,
               !.splitInfo = best.splitInfo,
               !.nodeGain = best.bestGain,
               !.begin = begin, !.count = count,
               !.entry = RangePairs(data, responses, begin, count),
               !.exit = RangePairs(data, responses, begin, count),
               !.untouched = TRUE,
               !.ret = RNeg(best.bestGain)],
   data |-> data, responses |-> responses,
   ret |-> RNeg(best.bestGain)]

\* Lines 193-194 and 264-265: the node becomes an internal node; done is
\* what the loop over the children has built.
TrainSplit(self, data, responses, begin, count, best, done) ==
  [node |-> [self EXCEPT
               !.children = done.children,
               !.active = "splitDimension",
               !.splitDimension = best.bestDim,
               !.prediction = Indeterminate,
               !.dimensionType = Type(best.bestDim),
               !.splitInfo = best.splitInfo,
               !.nodeGain = done.bestGain,
               !.begin = begin, !.count = count,
               !.entry = RangePairs(data, responses, begin, count),
               !.exit = RangePairs(done.st.data, done.st.responses,
                                   begin, count),
               !.untouched = SameOutside(data, responses, done.st.data,
                                         done.st.responses, begin, count),
               !.ret = RNeg(done.bestGain)],
   data |-> done.st.data, responses |-> done.st.responses,
   ret |-> RNeg(done.bestGain)]

\* Lines 225-228: the state the loop over the children starts from.
SplitStart(data, responses, begin, childAssignments) ==
  [st |-> [childAssignments |-> childAssignments, data |-> data,
           responses |-> responses, currentCol |-> begin],
   bestGain |-> Zero, children |-> <<>>]

RECURSIVE Train(_, _, _, _, _, _, _)
RECURSIVE ChildLoop(_, _, _, _, _, _, _, _, _)

\* Lines 243-250: the child is built on the range the partition pass st
\* has given it.
ChildBuild(acc, st, range, i, childCounts, count, cfg, maximumDepth, id) ==
  ChildDone(acc, st,
            Train(NewXGBTree(<<id[1], Append(id[2], i)>>), st.data,
                  st.responses, range.begin, range.count, cfg,
                  maximumDepth - 1),
            childCounts[i + 1], count)

\* Lines 231-241: the partition pass of child i.
ChildPass(acc, st, i, childCounts, count, cfg, maximumDepth, id) ==
  ChildBuild(acc, st, ChildRange(acc.st.currentCol, st.currentCol), i,
             childCounts, count, cfg, maximumDepth, id)

ChildLoop(acc, i, numChildren, childCounts, begin, count, cfg, maximumDepth, id) ==
  IF i >= numChildren THEN acc
  ELSE ChildLoop(
         ChildPass(acc,
                   PartitionPass(acc.st, i, acc.st.currentCol, begin, count),
                   i, childCounts, count, cfg, maximumDepth, id),
         i + 1, numChildren, childCounts, begin, count, cfg, maximumDepth, id)

\* Lines 196-254: the children are counted, the data partitioned and the
\* children built.
Split(self, data, responses, begin, count, cfg, maximumDepth, best, childAssignments) ==
  TrainSplit(self, data, responses, begin, count, best,
             ChildLoop(SplitStart(data, responses, begin, childAssignments),
                       0, NumChildren(best.bestDim, best.splitInfo),
                       ChildCounts(childAssignments,
                                   NumChildren(best.bestDim, best.splitInfo)),
                       begin, count, cfg, maximumDepth, self.id))

\* Line 186: did we split or not?
Decide(self, data, responses, begin, count, cfg, maximumDepth, best) ==
  IF best.bestDim # Dimensionality
  THEN Split(self, data, responses, begin, count, cfg, maximumDepth, best,
             ChildAssignments(data, begin, count, best.bestDim,
                              best.splitInfo))
  ELSE TrainLeaf(self, data, responses, begin, count, best)

Train(self, data, responses, begin, count, cfg, maximumDepth) ==
  Decide(self, data, responses, begin, count, cfg, maximumDepth,
         BestSplit(self, data, responses, begin, count, cfg, maximumDepth))

(***************************************************************************)
(* CalculateDirection, lines 55-63, and Predict, lines 268-277.  Reading   *)
(* prediction while splitDimension is the active member of the union, and  *)
(* indexing children out of range, are undefined: Predict then yields any  *)
(* of the outcomes in Undefined.                                           *)
(***************************************************************************)
Value(v) == [kind |-> "value", value |-> v]
Undefined == {Value(<<0, 1>>), Value(<<7, 1>>),
              [kind |-> "crash", value |-> Indeterminate]}

\* The dispatch with the two split types exchanged.
CalculateDirectionExchanged(node, point) ==
  IF node.dimensionType = "categorical"
  THEN NumericCalculateDirection(point[node.splitDimension + 1],
                                 node.splitInfo)
  ELSE CategoricalCalculateDirection(point[node.splitDimension + 1],
                                     node.splitInfo)

CalculateDirection(node, point) ==
  IF node.dimensionType = "categorical"
  THEN CategoricalCalculateDirection(point[node.splitDimension + 1],
                                     node.splitInfo)
  ELSE NumericCalculateDirection(point[node.splitDimension + 1],
                                 node.splitInfo)

RECURSIVE Predict(_, _)
Predict(node, point) ==
  IF Len(node.children) = 0
  THEN IF node.active = "prediction" THEN {Value(node.prediction)}
       ELSE Undefined
  ELSE LET direction == CalculateDirection(node, point)
       IN  IF direction < Len(node.children)
           THEN Predict(node.children[direction + 1], point)
           ELSE Undefined

(***************************************************************************)
(* Prune, lines 279-303.  The result holds the node after the call, the    *)
(* returned flag, the ids of the nodes deleted (line 294) and the ids of   *)
(* the nodes Prune was called on, in call order.                           *)
(***************************************************************************)
\* The comparison made non-strict.
PruneFlagNotStrict(nodeGain, threshold) == ~RLess(threshold, nodeGain)

PruneFlag(nodeGain, threshold) == RLess(nodeGain, threshold)

\* children.erase(children.begin() + i), line 290.
Erase(children, i) ==
  [k \in 1 .. (Len(children) - 1) |->
     IF k <= i THEN children[k] ELSE children[k + 1]]

\* The index without the i-- of line 292: the loop's ++i alone.
IndexAfterEraseNoDecrement(i) == i + 1

\* The index the loop continues with after an erase: i-- (line 292, which
\* wraps at 0) followed by the loop's ++i.
IndexAfterErase(i) == (i - 1) + 1

RECURSIVE Prune(_, _)
RECURSIVE PruneLoop(_, _, _, _)

PruneLoop(acc, i, numChildren, threshold) ==
  IF i >= numChildren THEN acc
  ELSE LET r == Prune(acc.children[i + 1], threshold)
       IN  IF r.flag
           THEN PruneLoop(
                  [children |-> Erase(acc.children, i),
                   deleted |-> acc.deleted \cup r.deleted
                                 \cup {acc.children[i + 1].id},
                   calls |-> acc.calls \o r.calls],
                  IndexAfterErase(i), numChildren - 1, threshold)
           ELSE PruneLoop(
                  [children |-> [acc.children EXCEPT ![i + 1] = r.node],
                   deleted |-> acc.deleted \cup r.deleted,
                   calls |-> acc.calls \o r.calls],
                  i + 1, numChildren, threshold)

Prune(node, threshold) ==
  LET done == PruneLoop([children |-> node.children, deleted |-> {},
                         calls |-> <<>>],
                        0, Len(node.children), threshold)
  IN  [node |-> [node EXCEPT !.children = done.children],
       flag |-> PruneFlag(node.nodeGain, threshold),
       deleted |-> done.deleted,
       calls |-> done.calls \o <<node.id>>]

(***************************************************************************)
(* Tree traversal helpers.                                                 *)
(***************************************************************************)
RECURSIVE Nodes(_)
Nodes(node) ==
  {node} \cup UNION {Nodes(node.children[k]) : k \in 1 .. Len(node.children)}

Descendants(node) == {n.id : n \in Nodes(node)} \ {node.id}

RECURSIVE Depth(_)
Depth(node) ==
  IF Len(node.children) = 0 THEN 1
  ELSE 1 + CHOOSE d \in 1 .. MaxSamples + 1 :
             /\ \E k \in 1 .. Len(node.children) : Depth(node.children[k]) = d
             /\ \A k \in 1 .. Len(node.children) : Depth(node.children[k]) <= d

(***************************************************************************)
(* The state: the caller's dataset and hyperparameters, the root node, the *)
(* set of nodes allocated with new and not deleted, a record of the last   *)
(* operation (for Prune, with the tree as it was before the call) and, if  *)
(* the last two operations were Prune with one threshold, the flag the     *)
(* first of the two returned.                                              *)
(***************************************************************************)
VARIABLES data, responses, params, tree, heap, phase, gen, pruned, last, prev

vars == <<data, responses, params, tree, heap, phase, gen, pruned, last, prev>>

NoOp == [op |-> "none", threshold |-> Zero, flag |-> FALSE, calls |-> <<>>,
         deleted |-> {}, point |-> <<>>, outcome |-> Value(Indeterminate),
         before |-> NewXGBTree(<<0, <<>>>>)]

NoPrune == [repeated |-> FALSE, flag |-> FALSE]

Repeats(l, threshold) ==
  IF l.op = "Prune" /\ l.threshold = threshold
  THEN [repeated |-> TRUE, flag |-> l.flag]
  ELSE NoPrune

Datasets ==
  UNION {[1 .. n -> Points \X Responses] : n \in 1 .. MaxSamples}

Init ==
  /\ \E d \in Datasets :
       /\ data = [c \in 1 .. Len(d) |-> d[c][1]]
       /\ responses = [c \in 1 .. Len(d) |-> d[c][2]]
  /\ params \in Hyperparameters
  /\ tree = NewXGBTree(<<0, <<>>>>)
  /\ heap = {}
  /\ phase = "constructed"
  /\ gen = 0
  /\ pruned = FALSE
  /\ last = NoOp
  /\ prev = NoPrune

\* Train, lines 124-127: the existing children are deleted, one by one.
ClearChildren(node, allocated) ==
  allocated \ {node.children[k].id : k \in 1 .. Len(node.children)}

DoTrain ==
  /\ phase \in {"constructed", "trained"}
  /\ gen < MaxTrains
  /\ LET self == [tree EXCEPT !.id = <<gen + 1, <<>>>>]
         t == Train(self, data, responses, 0, Len(data),
                    [minimumLeafSize |-> params.minimumLeafSize,
                     minimumGainSplit |-> params.minimumGainSplit],
                    params.maximumDepth)
     IN  /\ tree' = t.node
         /\ data' = t.data
         /\ responses' = t.responses
         /\ heap' = ClearChildren(tree, heap) \cup Descendants(t.node)
  /\ last' = [NoOp EXCEPT !.op = "Train"]
  /\ phase' = "trained"
  /\ gen' = gen + 1
  /\ pruned' = FALSE
  /\ prev' = NoPrune
  /\ UNCHANGED params

DoPrune(threshold) ==
  /\ phase = "trained"
  /\ LET r == Prune(tree, threshold)
     IN  /\ tree' = r.node
         /\ heap' = heap \ r.deleted
         /\ last' = [NoOp EXCEPT !.op = "Prune", !.threshold = threshold,
                                 !.flag = r.flag, !.calls = r.calls,
                                 !.deleted = r.deleted, !.before = tree]
  /\ pruned' = TRUE
  /\ prev' = Repeats(last, threshold)
  /\ UNCHANGED <<data, responses, params, phase, gen>>

DoPredict(point) ==
  /\ phase = "trained"
  /\ \E outcome \in Predict(tree, point) :
       last' = [NoOp EXCEPT !.op = "Predict", !.point = point,
                            !.outcome = outcome]
  /\ prev' = NoPrune
  /\ UNCHANGED <<data, responses, params, tree, heap, phase, gen, pruned>>

\* The root goes out of scope.  The class declares no destructor, so the
\* implicit one destroys the vector of pointers and deletes no child.
Teardown ==
  /\ phase = "trained"
  /\ phase' = "destroyed"
  /\ tree' = NewXGBTree(<<0, <<>>>>)
  /\ heap' = heap
  /\ last' = [NoOp EXCEPT !.op = "Teardown"]
  /\ prev' = NoPrune
  /\ UNCHANGED <<data, responses, params, gen, pruned>>

Next ==
  \/ DoTrain
  \/ \E threshold \in Thresholds : DoPrune(threshold)
  \/ \E point \in Points : DoPredict(point)
  \/ Teardown

Spec == Init /\ [][Next]_vars

\* The specifications of the operations taken alone: training only,
\* training and prediction, and a tree trained once and pruned any number
\* of times.
TrainNext == DoTrain
TrainSpec == Init /\ [][TrainNext]_vars

PredictNext == DoTrain \/ \E point \in Points : DoPredict(point)
PredictSpec == Init /\ [][PredictNext]_vars

\* The first call of Train on the constructed tree.
TrainOnce == phase = "constructed" /\ DoTrain

PruneNext == TrainOnce \/ \E threshold \in Thresholds : DoPrune(threshold)
PruneSpec == Init /\ [][PruneNext]_vars

(***************************************************************************)
(* Definitions used to state the properties.                               *)
(***************************************************************************)
\* The tree is as Train built it: no Prune has run since.
AsTrained == phase = "trained" /\ ~pruned

Leaves(node) == {n \in Nodes(node) : Len(n.children) = 0}
Internals(node) == {n \in Nodes(node) : Len(n.children) > 0}

InRange(n, c) == n.begin <= c /\ c < n.begin + n.count

\* How often v occurs among the columns begin .. begin + count - 1 of s.
Occurrences(s, begin, count, v) ==
  Cardinality({c \in begin .. (begin + count - 1) : s[c + 1] = v})

SameMultiset(s, t, begin, count) ==
  \A c \in begin .. (begin + count - 1) :
    /\ Occurrences(s, begin, count, s[c + 1])
         = Occurrences(t, begin, count, s[c + 1])
    /\ Occurrences(s, begin, count, t[c + 1])
         = Occurrences(t, begin, count, t[c + 1])

\* The pairs of the range of n whose direction at node n is d, in the order
\* they have in s.
RECURSIVE Directed(_, _, _)
Directed(n, s, d) ==
  IF s = <<>> THEN <<>>
  ELSE IF CalculateDirection(n, Head(s)[1]) = d
       THEN <<Head(s)>> \o Directed(n, Tail(s), d)
       ELSE Directed(n, Tail(s), d)

\* The pairs the ranges of the children hold when their Train calls have
\* returned, in child order.
RECURSIVE ChildExits(_)
ChildExits(children) ==
  IF children = <<>> THEN <<>>
  ELSE Head(children).exit \o ChildExits(Tail(children))

\* C1: Train only permutes the samples of its range: at every node the
\* multiset of (column, response) pairs in the node's range is the same when
\* its Train returns as when it was called, the columns outside the range
\* are untouched, and after the root Train every column of the dataset lies
\* in the range of exactly one leaf.
TrainPermutesRange ==
  AsTrained =>
    /\ tree.exit = Pairs(data, responses)
    /\ \A n \in Nodes(tree) :
         /\ Len(n.entry) = n.count
         /\ Len(n.exit) = n.count
         /\ SameMultiset(n.entry, n.exit, 0, n.count)
         /\ n.untouched
         /\ Len(n.children) > 0 => n.exit = ChildExits(n.children)
    /\ \A c \in 0 .. (Len(data) - 1) :
         Cardinality({n \in Leaves(tree) : InRange(n, c)}) = 1

TrainPermutesRangeWitness ==
  /\ AsTrained
  /\ Depth(tree) >= 3
  /\ tree.entry # tree.exit
  /\ \E n \in Internals(tree) : n.begin > 0 /\ n.entry # n.exit

\* C2: the ranges handed to the children of an internal node are contiguous,
\* in child order, pairwise disjoint and cover exactly the node's range, and
\* child i's range holds exactly the samples whose direction is i.
ChildRangesPartition ==
  AsTrained =>
    \A n \in Internals(tree) :
      LET k == Len(n.children)
      IN  /\ k = NumChildren(n.splitDimension, n.splitInfo)
          /\ n.children[1].begin = n.begin
          /\ \A i \in 1 .. (k - 1) :
               n.children[i + 1].begin
                 = n.children[i].begin + n.children[i].count
          /\ n.children[k].begin + n.children[k].count = n.begin + n.count
          /\ \A i \in 1 .. k :
               /\ Len(n.children[i].entry) = n.children[i].count
               /\ \A c \in 1 .. Len(n.children[i].entry) :
                    CalculateDirection(n, n.children[i].entry[c][1]) = i - 1
               /\ n.children[i].count
                    = Len(Directed(n, n.entry, i - 1))

ChildRangesPartitionWitness ==
  /\ AsTrained
  /\ \E n \in Internals(tree) :
       /\ n.begin > 0
       /\ n.dimensionType = "categorical"
       /\ n.entry # n.exit
  /\ tree.dimensionType = "numeric"

\* C10 as stated: the partition is stable, the samples of every child's
\* range are in the relative order they had in the node's range before.
PartitionStable ==
  AsTrained =>
    \A n \in Internals(tree) :
      \A i \in 1 .. Len(n.children) :
        n.children[i].entry
          = Directed(n, n.entry, i - 1)

\* C10 as amended: the samples of the first child's range are in the
\* relative order they had in the node's range before the partition; every
\* other child's range holds the samples of its direction, in some order.
PartitionStableFirstChild ==
  AsTrained =>
    \A n \in Internals(tree) :
      /\ n.children[1].entry
           = Directed(n, n.entry, 0)
      /\ \A i \in 2 .. Len(n.children) :
           LET want == Directed(n, n.entry, i - 1)
               got == n.children[i].entry
           IN  /\ Len(got) = Len(want)
               /\ SameMultiset(got, want, 0, Len(got))

PartitionStableFirstChildWitness ==
  /\ AsTrained
  /\ \E n \in Internals(tree) :
       /\ n.children[2].entry
            # Directed(n, n.entry, 1)
       /\ Cols(n.entry, 0, n.children[1].count) # n.children[1].entry

\* The sum over the children of (childCount / count) * (-childGain), with
\* childGain the value the child's Train returned.
RECURSIVE WeightedChildGain(_, _)
WeightedChildGain(children, count) ==
  IF children = <<>> THEN Zero
  ELSE RAdd(WeightedChildGain(SubSeq(children, 1, Len(children) - 1), count),
            RMul(Rat(children[Len(children)].count, count),
                 RNeg(children[Len(children)].ret)))

\* C9 as stated: a node created as a leaf caches nodeGain = 0, an internal
\* node the weighted gain of its children.
LeafGainZero ==
  AsTrained =>
    /\ \A n \in Leaves(tree) : n.nodeGain = Zero
    /\ \A n \in Internals(tree) :
         n.nodeGain = WeightedChildGain(n.children, n.count)

\* C9 as amended: a node created as a leaf caches the gain of its undivided
\* range, Evaluate of the responses of the range (0 only when they are all
\* equal); an internal node caches the weighted gain of its children; every
\* node returns the negation of what it caches.
NodeGainCached ==
  AsTrained =>
    /\ \A n \in Leaves(tree) :
         n.nodeGain
           = Evaluate([c \in 1 .. n.count |-> n.entry[c][2]])
    /\ \A n \in Internals(tree) :
         n.nodeGain = WeightedChildGain(n.children, n.count)
    /\ \A n \in Nodes(tree) : n.ret = RNeg(n.nodeGain)

NodeGainCachedWitness ==
  /\ AsTrained
  /\ Len(tree.children) > 0
  /\ tree.nodeGain # Zero
  /\ \E n \in Leaves(tree) : n.nodeGain # Zero
  /\ \E n \in Leaves(tree) : n.nodeGain = Zero

\* The leaf whose range holds column c.
LeafOfColumn(c) == CHOOSE n \in Leaves(tree) : InRange(n, c)

\* The leaf the stored split directions lead to from node.
RECURSIVE Route(_, _)
Route(node, point) ==
  IF Len(node.children) = 0 THEN node
  ELSE Route(node.children[CalculateDirection(node, point) + 1], point)

\* C3: with no Prune since Train, Predict on the feature vector of a sample
\* of the training range follows the split directions to the leaf whose
\* range holds the sample and returns the mean of the responses of that
\* range.
PredictTrainingSample ==
  (AsTrained /\ last.op = "Predict") =>
    \A c \in 0 .. (Len(data) - 1) :
      data[c + 1] = last.point =>
        /\ last.outcome
             = Value(OutputLeafValue(Cols(responses, LeafOfColumn(c).begin,
                                          LeafOfColumn(c).count)))
        /\ Predict(tree, data[c + 1]) = {Value(LeafOfColumn(c).prediction)}
        /\ Route(tree, data[c + 1]).id = LeafOfColumn(c).id

PredictTrainingSampleWitness ==
  /\ AsTrained
  /\ last.op = "Predict"
  /\ Depth(tree) >= 3
  /\ \E c \in 0 .. (Len(data) - 1) :
       /\ data[c + 1] = last.point
       /\ Len(LeafOfColumn(c).id[2]) = 2
       /\ LeafOfColumn(c).begin > 0
       /\ last.outcome = Value(<<1, 1>>)

\* The tree Prune(threshold) must leave: below every node, the children
\* whose nodeGain is not below the threshold, in their order, pruned alike.
RECURSIVE Kept(_, _)
Kept(node, threshold) ==
  LET keep == SelectSeq(node.children,
                        LAMBDA ch : ~RLess(ch.nodeGain, threshold))
  IN  [node EXCEPT !.children =
         [k \in 1 .. Len(keep) |-> Kept(keep[k], threshold)]]

RECURSIVE PostOrder(_)
RECURSIVE PostOrderAll(_)
PostOrderAll(children) ==
  IF children = <<>> THEN <<>>
  ELSE PostOrder(Head(children)) \o PostOrderAll(Tail(children))
PostOrder(node) == PostOrderAll(node.children) \o <<node.id>>

\* The ids of the nodes of the subtrees Prune(threshold) detaches.
RECURSIVE Detached(_, _)
Detached(node, threshold) ==
  UNION {IF RLess(node.children[k].nodeGain, threshold)
         THEN {n.id : n \in Nodes(node.children[k])}
         ELSE Detached(node.children[k], threshold) :
           k \in 1 .. Len(node.children)}

\* C7: Prune calls Prune on every node once, children before their parent;
\* it detaches exactly the children whose nodeGain is below the threshold
\* and keeps the others in their order; it returns whether the node's own
\* nodeGain is below the threshold; it changes no nodeGain.
PruneDetachesByGain ==
  last.op = "Prune" =>
    /\ tree = Kept(last.before, last.threshold)
    /\ last.flag = RLess(last.before.nodeGain, last.threshold)
    /\ last.calls = PostOrder(last.before)
    /\ tree.nodeGain = last.before.nodeGain
    /\ last.deleted \subseteq Detached(last.before, last.threshold)
    /\ \A n \in Nodes(tree) :
         \E m \in Nodes(last.before) : m.id = n.id /\ m.nodeGain = n.nodeGain

PruneDetachesByGainWitness ==
  /\ last.op = "Prune"
  /\ ~last.flag
  /\ Len(last.before.children) = 2
  /\ Len(tree.children) = 1
  /\ tree.children[1].id = last.before.children[2].id

\* C6: a Prune that follows a Prune with the same threshold deletes no node,
\* leaves the tree as it is, nodeGain included, and returns the same flag.
PruneIdempotent ==
  (last.op = "Prune" /\ prev.repeated) =>
    /\ last.deleted = {}
    /\ tree = last.before
    /\ last.flag = prev.flag

PruneIdempotentWitness ==
  /\ last.op = "Prune"
  /\ prev.repeated
  /\ last.flag
  /\ tree.active = "splitDimension"
  /\ Len(tree.children) = 1
  /\ Len(tree.children[1].children) = 0

\* C4: at every node with a child, the direction of every point is an index
\* into children, and the child there is the one built for that direction.
DirectionIndexesItsChild ==
  phase = "trained" =>
    \A n \in Internals(tree) :
      \A point \in Points :
        LET direction == CalculateDirection(n, point)
        IN  /\ direction < Len(n.children)
            /\ n.children[direction + 1].id[2] = Append(n.id[2], direction)

\* C5: a node has no child exactly if it is a leaf, the shared slot holding
\* a prediction written by the leaf branch of Train.
LeafIffNoChildren ==
  phase = "trained" =>
    \A n \in Nodes(tree) :
      Len(n.children) = 0 <=> n.active = "prediction"

\* C8: no node allocated by Train stays allocated while it cannot be
\* reached from the root.
NoLeakedNode ==
  /\ phase = "trained" => heap \subseteq Descendants(tree)
  /\ phase = "destroyed" => heap = {}

====
